---------------------------- MODULE Spec2Model ----------------------------
(***************************************************************************)
(* Model of redash/__init__.py: the Redis connection built at import, the  *)
(* Flask application factory create_app, and the response hook             *)
(* JwtFlask.process_response that refreshes the 'jwt' cookie.              *)
(*                                                                         *)
(* Python values are tagged records (PyInt, PyStr, PyNone); Python strings *)
(* whose characters matter are sequences of one-character strings.         *)
(***************************************************************************)
EXTENDS Integers, Sequences, FiniteSets, TLC

VARIABLES settings, redis_connection, app, req, out

vars == <<settings, redis_connection, app, req, out>>

(***************************************************************************)
(* Bounds of the model.                                                    *)
(***************************************************************************)
MaxDbDigits == 2      \* digits of the database number in a URL path
MaxPwLen == 2         \* characters of a URL password
MaxQueryLen == 2      \* name=value fields of a URL query
MaxRefLen == 1        \* characters of a Referer header
MaxTick == 4          \* time runs over 0 .. MaxTick half refresh windows

(***************************************************************************)
(* Python values.                                                          *)
(***************************************************************************)
PyNone == [type |-> "NoneType"]
PyInt(n) == [type |-> "int", int |-> n]
PyStr(s) == [type |-> "str", str |-> s]

RECURSIVE SeqsUpTo(_, _)
SeqsUpTo(S, n) ==
  IF n = 0 THEN {<<>>}
  ELSE LET shorter == SeqsUpTo(S, n - 1)
       IN  shorter \cup {Append(s, c) : s \in shorter, c \in S}

(***************************************************************************)
(* urllib.unquote: every '%' followed by two hexadecimal digits is         *)
(* replaced by the character with that code, every other '%' is kept.      *)
(* The passwords of the model are written with the characters p, % and 4,  *)
(* so the only escape they can spell is %44, the letter D.                 *)
(***************************************************************************)
PwChars == {"p", "%", "4"}

hextochr == [pair \in {<<"4", "4">>} |-> "D"]

RECURSIVE unquote(_)
unquote(s) ==
  IF s = <<>> THEN <<>>
  ELSE IF s[1] = "%" /\ Len(s) >= 3 /\ <<s[2], s[3]>> \in DOMAIN hextochr
       THEN <<hextochr[<<s[2], s[3]>>]>> \o unquote(SubSeq(s, 4, Len(s)))
       ELSE <<s[1]>> \o unquote(Tail(s))

(***************************************************************************)
(* urlparse.parse_qs on a query given as its name=value fields in order:   *)
(* fields with a blank value are dropped (keep_blank_values is off), the   *)
(* values of the others are listed per name, in order.                     *)
(***************************************************************************)
RECURSIVE ValuesOf(_, _)
ValuesOf(query, name) ==
  IF query = <<>> THEN <<>>
  ELSE IF query[1][1] = name /\ query[1][2] # <<>>
       THEN <<query[1][2]>> \o ValuesOf(Tail(query), name)
       ELSE ValuesOf(Tail(query), name)

parse_qs(query) ==
  [name \in {query[i][1] : i \in {j \in 1..Len(query) : query[j][2] # <<>>}}
     |-> ValuesOf(query, name)]

(***************************************************************************)
(* settings.REDIS_URL as urlparse.urlparse splits it.                      *)
(***************************************************************************)
DbDigits == {"1", "2"}
DbPaths == {<<>>} \cup {<<"/">> \o d : d \in SeqsUpTo(DbDigits, MaxDbDigits)}
Passwords == {PyNone} \cup {PyStr(s) : s \in SeqsUpTo(PwChars, MaxPwLen)}
QueryFields == {<<"virtual_host", <<>> >>, <<"virtual_host", <<"3">> >>,
                <<"virtual_host", <<"4">> >>, <<"timeout", <<"5">> >>}
Queries == SeqsUpTo(QueryFields, MaxQueryLen)

TcpUrls ==
  [scheme : {"redis", "rediss"}, hostname : {"localhost"}, port : {6379},
   path : DbPaths, query : {<<>>}, password : Passwords]
SocketUrls ==
  [scheme : {"redis+socket"}, hostname : {""}, port : {0},
   path : {<<"/", "s">>}, query : Queries, password : {PyNone}]
RedisUrls == TcpUrls \cup SocketUrls

(***************************************************************************)
(* create_redis_connection.  The result is the StrictRedis client with the *)
(* arguments it was built with, or the exception the function raised.      *)
(***************************************************************************)
StrictRedisUnix(path, db) ==
  [status |-> "ok", via |-> "unix_socket_path", unix_socket_path |-> path,
   db |-> db]
StrictRedisTcp(host, port, db, password) ==
  [status |-> "ok", via |-> "host", host |-> host, port |-> port, db |-> db,
   password |-> password]
Raised(exc) == [status |-> "raised", exc |-> exc]

socket_db(redis_url) ==
  LET qs == parse_qs(redis_url.query)
  IN  IF "virtual_host" \in DOMAIN qs
      THEN PyStr(qs["virtual_host"][1])
      ELSE PyInt(0)

redis_db(redis_url) ==
  IF redis_url.path # <<>>
  THEN IF Len(redis_url.path) >= 2
       THEN PyStr(<<redis_url.path[2]>>)
       ELSE Raised("IndexError")
  ELSE PyInt(0)

redis_password(redis_url) ==
  IF redis_url.password = PyNone \/ redis_url.password = PyStr(<<>>)
  THEN redis_url.password
  ELSE PyStr(unquote(redis_url.password.str))

create_redis_connection(redis_url) ==
  IF redis_url.scheme = "redis+socket"
  THEN StrictRedisUnix(redis_url.path, socket_db(redis_url))
  ELSE IF redis_db(redis_url) = Raised("IndexError")
       THEN Raised("IndexError")
       ELSE StrictRedisTcp(redis_url.hostname, redis_url.port,
                           redis_db(redis_url), redis_password(redis_url))

NotImported == [status |-> "not imported"]

(***************************************************************************)
(* Importing the module runs create_redis_connection once.                 *)
(***************************************************************************)
ImportModule ==
  /\ redis_connection = NotImported
  /\ redis_connection' = create_redis_connection(settings.REDIS_URL)
  /\ UNCHANGED <<settings, app, req, out>>

(***************************************************************************)
(* The settings the module reads.  REDIS_URL and the three switches vary;  *)
(* the paths and endpoints are fixed strings.                              *)
(***************************************************************************)
Settings(urls) ==
  [REDIS_URL : urls,
   REMOTE_JWT_LOGIN_ENABLED : BOOLEAN,
   ENFORCE_HTTPS : BOOLEAN,
   SENTRY_DSN : {"", "https://sentry"},
   STATIC_ASSETS_PATH : {"../client/dist/"},
   ROOT_UI_URL : {"/redash"},
   PROXIES_COUNT : {1},
   REMOTE_JWT_EXPIRED_ENDPOINT : {"https://login/?next="},
   REMOTE_JWT_REFRESH_PROVIDER : {"https://login/refresh"}]

NoApp == [cls |-> "none"]
NoReq == [present |-> FALSE]
NoOut == [kind |-> "none"]

(***************************************************************************)
(* create_app.  The application object records the class it was built      *)
(* from, the constructor arguments, the wrappers and configuration put on  *)
(* it, and the initializers called on it, in call order.                   *)
(***************************************************************************)
app_class_always_jwt(s) == "JwtFlask"

app_class(s) == IF s.REMOTE_JWT_LOGIN_ENABLED THEN "JwtFlask" ELSE "Flask"

init_calls_handlers_first(load_admin) ==
  <<"provision_app", "db.init_app", "migrate.init_app">>
  \o (IF load_admin THEN <<"init_admin">> ELSE <<>>)
  \o <<"mail.init_app", "handlers.init_app", "limiter.init_app",
       "setup_authentication", "configure_webpack",
       "extensions.init_extensions">>

init_calls(load_admin) ==
  <<"provision_app", "db.init_app", "migrate.init_app">>
  \o (IF load_admin THEN <<"init_admin">> ELSE <<>>)
  \o <<"mail.init_app", "setup_authentication", "limiter.init_app",
       "handlers.init_app", "configure_webpack", "extensions.init_extensions">>

new_app(s, load_admin) ==
  [cls |-> app_class(s),
   load_admin |-> load_admin,
   script_name |-> s.ROOT_UI_URL,
   template_folder |-> s.STATIC_ASSETS_PATH,
   static_folder |-> s.STATIC_ASSETS_PATH,
   static_url_path |-> <<s.ROOT_UI_URL, "/static">>,
   wsgi_app |-> <<"ProxyFix", s.PROXIES_COUNT>>,
   converters |-> {"org_slug"},
   sslify |-> s.ENFORCE_HTTPS,
   sentry |-> (s.SENTRY_DSN # ""),
   calls |-> init_calls(load_admin)]

create_app(load_admin) ==
  /\ redis_connection.status = "ok"
  /\ ~req.present
  /\ app' = new_app(settings, load_admin)
  /\ req' = NoReq
  /\ out' = NoOut
  /\ UNCHANGED <<settings, redis_connection>>

(***************************************************************************)
(* Time.  RefreshAfter is the age, in seconds, after which a token is      *)
(* refreshed; the clock of the model runs in halves of it.                 *)
(***************************************************************************)
RefreshAfter == 1200

Times == {k * (RefreshAfter \div 2) : k \in 0..MaxTick}
IssueTimes == {0, RefreshAfter \div 2}

(***************************************************************************)
(* Tokens.  A token is either not a JWT at all, or a signed set of claims; *)
(* the claims are a mapping that may lack any of 'iat', 'exp', 'email'.    *)
(***************************************************************************)
Optional(S) == {<<>>} \cup {<<v>> : v \in S}
Field(name, opt) == IF opt = <<>> THEN <<>> ELSE name :> opt[1]

ClaimSets ==
  {Field("iat", i) @@ Field("exp", e) @@ Field("email", m) :
     i \in Optional(IssueTimes), e \in Optional(Times),
     m \in Optional({<<"u">>})}

Malformed == [kind |-> "garbage"]
Tokens ==
  {Malformed} \cup [kind : {"jws"}, sig : {"valid", "forged"}, claims : ClaimSets]

NewToken ==
  [kind |-> "jws", sig |-> "valid",
   claims |-> ("iat" :> RefreshAfter) @@ ("exp" :> 2 * RefreshAfter)]

(***************************************************************************)
(* jose.jwt.  get_unverified_claims parses the token and returns its       *)
(* claims; decode also verifies the signature and the 'exp' claim against  *)
(* the clock.  Both raise JWTError on a string that is no JWT.             *)
(***************************************************************************)
Returned(v) == [status |-> "ok", value |-> v]

get_unverified_claims(token) ==
  IF token = Malformed THEN Raised("JWTError") ELSE Returned(token.claims)

jwt_decode(token, now) ==
  IF token = Malformed \/ token.sig # "valid" THEN Raised("JWTError")
  ELSE IF "exp" \in DOMAIN token.claims /\ token.claims["exp"] < now
       THEN Raised("ExpiredSignatureError")
       ELSE Returned(token.claims)

(***************************************************************************)
(* urllib.quote_plus on a referrer: None is not iterable (TypeError); in a *)
(* string a space becomes '+', letters stay, every other character is      *)
(* written as '%' and its two hexadecimal digits.                          *)
(***************************************************************************)
RefChars == {"a", " ", "/"}
always_safe == {"a"}
HexOf == ("/" :> <<"2", "F">>)

quote_char(c) ==
  IF c = " " THEN <<"+">>
  ELSE IF c \in always_safe THEN <<c>> ELSE <<"%">> \o HexOf[c]

RECURSIVE quote_chars(_)
quote_chars(s) ==
  IF s = <<>> THEN <<>> ELSE quote_char(s[1]) \o quote_chars(Tail(s))

quote_plus(referrer) ==
  IF referrer = PyNone THEN Raised("TypeError")
  ELSE Returned(quote_chars(referrer.str))

(***************************************************************************)
(* Requests, responses and what the hook reads from its environment.       *)
(***************************************************************************)
Referrers == {PyNone} \cup {PyStr(s) : s \in SeqsUpTo(RefChars, MaxRefLen)}
CookieJars ==
  {<<>>, ("session" :> [kind |-> "session id"])} \cup {("jwt" :> t) : t \in Tokens}
Requests == [present : {TRUE}, cookies : CookieJars, referrer : Referrers]
SessionCookie ==
  [name |-> "session", value |-> [kind |-> "session id"], secure |-> FALSE, httponly |-> TRUE]
Responses == [status : {200}, set_cookies : {<<SessionCookie>>}]

PublicKeys == {"", "pem"}

(* What requests.post does: it raises ConnectionError when the provider    *)
(* cannot be reached, and otherwise returns an object with the status_code *)
(* and the body the provider sent.  The hook reads the body as the         *)
(* attribute 'data' of that object.  requests.Response defines no such     *)
(* attribute, and reading it raises AttributeError (has_data is FALSE); an *)
(* object that exposes the parsed body under that name has has_data TRUE.  *)
Bodies == {<<>>, ("jwt" :> PyNone), ("jwt" :> NewToken)}
StatusCodes == {200, 300, 401, 500}
Answers ==
  [reached : {TRUE}, status_code : StatusCodes, body : Bodies,
   has_data : BOOLEAN]
  \cup {[reached |-> FALSE]}

resp_data(resp) ==
  IF resp.has_data THEN Returned(resp.body) ELSE Raised("AttributeError")

cookies_get_default_garbage(cookies, name) ==
  IF name \in DOMAIN cookies THEN <<cookies[name]>> ELSE <<Malformed>>

(* request.cookies.get(name, None), as no value or one value. *)
cookies_get(cookies, name) ==
  IF name \in DOMAIN cookies THEN <<cookies[name]>> ELSE <<>>

(***************************************************************************)
(* What one call of process_response did.                                  *)
(***************************************************************************)
Outcome(kind, response, location, exc, caught, reads, posts) ==
  [kind |-> kind, response |-> response, location |-> location, exc |-> exc,
   caught |-> caught,
   super_called |-> (kind = "base"),
   key_fetched |-> reads.key # <<>>,
   decoded |-> reads.decoded,
   public_key |-> reads.key, now |-> reads.now, posts |-> posts]

Reads(key, decoded, now) == [key |-> key, decoded |-> decoded, now |-> now]
NoReads == Reads(<<>>, FALSE, <<>>)

(* Flask.process_response: the response, passed through the base class. *)
flask_process_response(response, reads, posts) ==
  Outcome("base", response, <<>>, "", "", reads, posts)

uncaught(exc, caught, response, reads, posts) ==
  Outcome("raised", response, <<>>, exc, caught, reads, posts)

(* The except clause, entered with the exception it caught:               *)
(* redirect(endpoint + quote_plus(request.referrer)).                     *)
expired_redirect(caught, request, response, reads, posts) ==
  LET quoted == quote_plus(request.referrer)
  IN  IF quoted.status = "raised"
      THEN uncaught(quoted.exc, caught, response, reads, posts)
      ELSE Outcome("redirect", response,
                   <<settings.REMOTE_JWT_EXPIRED_ENDPOINT, quoted.value>>, "",
                   caught, reads, posts)

set_cookie(response, name, value) ==
  [response EXCEPT !.set_cookies =
     Append(@, [name |-> name, value |-> value, secure |-> TRUE,
                httponly |-> TRUE])]

(* requests.post(provider, headers=..., data=...) and the answer it got. *)
post(jwttoken, email, resp) ==
  [url |-> settings.REMOTE_JWT_REFRESH_PROVIDER,
   authorization |-> <<"Bearer ", jwttoken>>,
   data |-> [email |-> email],
   resp |-> resp]

should_refresh_inclusive(iat, exp, now) ==
  iat + RefreshAfter <= now /\ now <= exp

should_refresh(iat, exp, now) == iat + RefreshAfter < now /\ now <= exp

has_expired(exp, now) == now > exp

(* Lines 122-127: the refresh call and what follows from the answer. *)
refresh(request, response, jwttoken, claims, reads, resp) ==
  LET email == IF "email" \in DOMAIN claims THEN PyStr(claims["email"]) ELSE PyNone
      posts == <<post(jwttoken, email, resp)>>
  IN  IF ~resp.reached
      THEN uncaught("ConnectionError", "", response, reads, posts)
      ELSE IF resp.status_code < 300
      THEN LET data == resp_data(resp)
           IN  IF data.status = "raised"
               THEN uncaught(data.exc, "", response, reads, posts)
               ELSE IF "jwt" \in DOMAIN data.value /\ data.value["jwt"] # PyNone
               THEN flask_process_response(
                      set_cookie(response, "jwt", data.value["jwt"]), reads, posts)
               ELSE flask_process_response(response, reads, posts)
      ELSE IF resp.status_code = 401
      THEN expired_redirect("JWTError", request, response, reads, posts)
      ELSE flask_process_response(response, reads, posts)

(* Lines 110-132: JwtFlask.process_response.  The test "public_key is ''" *)
(* is taken as the test for the empty string.                            *)
jwt_process_response(request, response, public_key, now, resp) ==
  IF cookies_get(request.cookies, "jwt") = <<>>
  THEN flask_process_response(response, NoReads, <<>>)
  ELSE
    LET jwttoken == cookies_get(request.cookies, "jwt")[1]
        jwt_decoded == IF public_key = "" THEN get_unverified_claims(jwttoken)
                       ELSE jwt_decode(jwttoken, now)
        atDecode == Reads(<<public_key>>, FALSE, <<>>)
        atClaims == Reads(<<public_key>>, TRUE, <<>>)
        atClock == Reads(<<public_key>>, TRUE, <<now>>)
    IN  IF jwt_decoded.status = "raised"
        THEN expired_redirect(jwt_decoded.exc, request, response, atDecode, <<>>)
        ELSE LET claims == jwt_decoded.value
             IN  IF "iat" \notin DOMAIN claims \/ "exp" \notin DOMAIN claims
                 THEN uncaught("KeyError", "", response, atClaims, <<>>)
                 ELSE IF should_refresh(claims["iat"], claims["exp"], now)
                 THEN refresh(request, response, jwttoken, claims, atClock, resp)
                 ELSE IF has_expired(claims["exp"], now)
                 THEN expired_redirect("JWTClaimsError", request, response,
                                       atClock, <<>>)
                 ELSE flask_process_response(response, atClock, <<>>)

(***************************************************************************)
(* A request arrives and its view produces a response.                     *)
(***************************************************************************)
ReceiveRequest ==
  /\ app # NoApp
  /\ ~req.present
  /\ \E r \in Requests, response \in Responses :
       req' = [r EXCEPT !.present = TRUE] @@ [response |-> response]
  /\ out' = NoOut
  /\ UNCHANGED <<settings, redis_connection, app>>

(***************************************************************************)
(* The application's process_response runs on the response: the hook of    *)
(* JwtFlask when the application is one, Flask's own otherwise.            *)
(***************************************************************************)
process_response ==
  /\ req.present
  /\ out = NoOut
  /\ \E public_key \in PublicKeys, now \in Times, resp \in Answers :
       out' = IF app.cls = "JwtFlask"
              THEN jwt_process_response(req, req.response, public_key, now, resp)
              ELSE flask_process_response(req.response, NoReads, <<>>)
  /\ UNCHANGED <<settings, redis_connection, app, req>>

(***************************************************************************)
(* The hook has returned (or raised); the request is over.                 *)
(***************************************************************************)
EndRequest ==
  /\ out # NoOut
  /\ req' = NoReq
  /\ out' = NoOut
  /\ UNCHANGED <<settings, redis_connection, app>>

DefaultRedisUrl ==
  [scheme |-> "redis", hostname |-> "localhost", port |-> 6379,
   path |-> <<"/", "1">>, query |-> <<>>, password |-> PyNone]

Init ==
  /\ settings \in Settings({DefaultRedisUrl})
  /\ redis_connection = NotImported
  /\ app = NoApp
  /\ req = NoReq
  /\ out = NoOut

Next ==
  \/ ImportModule
  \/ \E load_admin \in BOOLEAN : create_app(load_admin)
  \/ ReceiveRequest
  \/ process_response
  \/ EndRequest

Spec == Init /\ [][Next]_vars

InitRedis ==
  /\ settings \in Settings(RedisUrls)
  /\ redis_connection = NotImported
  /\ app = NoApp
  /\ req = NoReq
  /\ out = NoOut

NextRedis == ImportModule

SpecRedis == InitRedis /\ [][NextRedis]_vars

(***************************************************************************)
(* Properties.                                                             *)
(***************************************************************************)
Handled == out # NoOut /\ app.cls = "JwtFlask"
HasJwt == req.present /\ "jwt" \in DOMAIN req.cookies
Posted == out.posts # <<>>
Answer == out.posts[1].resp
JwtCookies(response) ==
  {i \in 1..Len(response.set_cookies) : response.set_cookies[i].name = "jwt"}
Redirected ==
  /\ out.kind = "redirect"
  /\ req.referrer # PyNone
  /\ out.location = <<settings.REMOTE_JWT_EXPIRED_ENDPOINT,
                      quote_chars(req.referrer.str)>>
PassedThrough == out.kind = "base" /\ out.super_called

(* C1: whenever the hook's except clause catches a JWT validation error on *)
(* a request with a 'jwt' cookie, the hook returns the redirect to the     *)
(* expired endpoint followed by the quoted referrer, the base              *)
(* process_response is not called and no 'jwt' cookie is set.              *)
C1_RedirectOnFailure ==
  (Handled /\ HasJwt /\ out.caught # "") =>
     /\ Redirected
     /\ ~out.super_called
     /\ JwtCookies(out.response) = {}

(* C2: the application is a JwtFlask exactly when REMOTE_JWT_LOGIN_ENABLED *)
(* is set; a plain Flask application never calls the refresh provider,     *)
(* sets a 'jwt' cookie or redirects from response processing; either class *)
(* is built with the same template folder, static folder and static path.  *)
C2_HookOnlyWhenEnabled ==
  app # NoApp =>
     /\ (app.cls = "JwtFlask") <=> settings.REMOTE_JWT_LOGIN_ENABLED
     /\ (app.cls = "Flask") <=> ~settings.REMOTE_JWT_LOGIN_ENABLED
     /\ app.template_folder = settings.STATIC_ASSETS_PATH
     /\ app.static_folder = settings.STATIC_ASSETS_PATH
     /\ app.static_url_path = <<settings.ROOT_UI_URL, "/static">>
     /\ (~settings.REMOTE_JWT_LOGIN_ENABLED /\ out # NoOut) =>
          /\ out.posts = <<>>
          /\ JwtCookies(out.response) = {}
          /\ out.kind = "base"
          /\ ~out.key_fetched /\ ~out.decoded

C2_Witness ==
  /\ ~settings.REMOTE_JWT_LOGIN_ENABLED
  /\ out # NoOut
  /\ HasJwt
  /\ req.cookies["jwt"] # Malformed
  /\ req.cookies["jwt"].sig = "valid"
  /\ DOMAIN req.cookies["jwt"].claims = {"iat", "exp", "email"}

(* C3: the refresh provider is called exactly when the request has a 'jwt' *)
(* cookie, the token decodes, and iat + 1200 < now <= exp; it is called at *)
(* most once, with the old token as Bearer authorization and the email     *)
(* claim as data; a token with now <= iat + 1200 and now <= exp causes     *)
(* neither a refresh call nor a redirect.                                  *)
C3_RefreshWindow ==
  Handled =>
    LET claims == req.cookies["jwt"].claims
        timed == /\ HasJwt /\ out.decoded /\ out.now # <<>>
                 /\ {"iat", "exp"} \subseteq DOMAIN claims
    IN  /\ Len(out.posts) <= 1
        /\ Posted =>
             /\ timed
             /\ claims["iat"] + 1200 < out.now[1]
             /\ out.now[1] <= claims["exp"]
             /\ out.posts[1].url = settings.REMOTE_JWT_REFRESH_PROVIDER
             /\ out.posts[1].authorization = <<"Bearer ", req.cookies["jwt"]>>
             /\ out.posts[1].data.email =
                  (IF "email" \in DOMAIN claims THEN PyStr(claims["email"])
                   ELSE PyNone)
        /\ (timed /\ claims["iat"] + 1200 < out.now[1]
                  /\ out.now[1] <= claims["exp"]) => Posted
        /\ (timed /\ out.now[1] <= claims["iat"] + 1200
                  /\ out.now[1] <= claims["exp"]) =>
             ~Posted /\ out.kind = "base"

C3_Witness ==
  /\ Handled /\ Posted
  /\ "email" \in DOMAIN req.cookies["jwt"].claims

(* C4: when the provider is called and answers with a status below 300 and *)
(* a body with a non-null 'jwt', the response gets the cookie 'jwt' set to *)
(* exactly that token, secure and httponly, and the hook returns the base  *)
(* process_response of that otherwise unmodified response.                 *)
C4_CookieRefreshed ==
  (/\ Handled /\ Posted /\ Answer.reached
   /\ Answer.status_code < 300
   /\ "jwt" \in DOMAIN Answer.body /\ Answer.body["jwt"] # PyNone) =>
     /\ PassedThrough
     /\ out.response =
          [req.response EXCEPT !.set_cookies =
             Append(@, [name |-> "jwt", value |-> Answer.body["jwt"],
                        secure |-> TRUE, httponly |-> TRUE])]

(* C5: for every decoded token with now > exp the hook returns the         *)
(* redirect to the expired endpoint and does not call the provider,        *)
(* whatever iat is.                                                        *)
C5_ExpiredRedirects ==
  (/\ Handled /\ HasJwt /\ out.decoded /\ out.now # <<>>
   /\ out.now[1] > req.cookies["jwt"].claims["exp"]) =>
     Redirected /\ ~Posted

(* C6: after a refresh call the provider's answer decides the outcome in   *)
(* three disjoint ways: status < 300 with a 'jwt' value sets the cookie;   *)
(* status 401 redirects to the expired endpoint; every other answer leaves *)
(* the response without a 'jwt' cookie and passes it to the base           *)
(* process_response.                                                       *)
C6_AnswerDecides ==
  (Handled /\ Posted /\ Answer.reached) =>
    LET fresh == /\ Answer.status_code < 300
                 /\ "jwt" \in DOMAIN Answer.body
                 /\ Answer.body["jwt"] # PyNone
    IN  /\ fresh =>
             PassedThrough /\ JwtCookies(out.response) # {}
        /\ Answer.status_code = 401 => Redirected
        /\ (~fresh /\ Answer.status_code # 401) =>
             PassedThrough /\ out.response = req.response

(* C7: a request without a 'jwt' cookie is left untouched: no key fetched, *)
(* nothing decoded, no provider call, no cookie set, no redirect; the hook *)
(* returns what the base process_response returns for the same response.   *)
C7_NoCookieUntouched ==
  (Handled /\ ~HasJwt) =>
     /\ ~out.key_fetched
     /\ ~out.decoded
     /\ out.now = <<>>
     /\ ~Posted
     /\ out.response = req.response
     /\ out.kind = "base"
     /\ out = flask_process_response(req.response, NoReads, <<>>)

C7_Witness == Handled /\ ~HasJwt /\ "session" \in DOMAIN req.cookies

(* C8: for every request the hook ends by returning the redirect or the    *)
(* base process_response result, never with an uncaught error.             *)
C8_AlwaysResponds ==
  Handled => out.kind \in {"redirect", "base"}

DigitValue == [c \in {"0", "1", "2", "3", "4", "5", "6", "7", "8", "9"} |->
                 CHOOSE n \in 0..9 :
                   <<"0", "1", "2", "3", "4", "5", "6", "7", "8", "9">>[n + 1] = c]

RECURSIVE NumberWritten(_)
NumberWritten(digits) ==
  IF digits = <<>> THEN 0
  ELSE 10 * NumberWritten(SubSeq(digits, 1, Len(digits) - 1))
       + DigitValue[digits[Len(digits)]]

DbNumber(db) == IF db.type = "int" THEN db.int ELSE NumberWritten(db.str)

(* C9: create_redis_connection connects, for 'redis+socket', over the unix *)
(* socket at the URL path with db the first 'virtual_host' value or 0; for *)
(* any other scheme to the URL's host and port, with db the number written *)
(* in the path ('/<n>', n of any length, or the bare '/'), 0 for an empty  *)
(* path, and with the unquoted password when there is one.                 *)
C9_RedisDatabase ==
  redis_connection # NotImported =>
    LET url == settings.REDIS_URL
        conn == redis_connection
    IN  /\ conn.status = "ok"
        /\ url.scheme = "redis+socket" =>
             /\ conn.via = "unix_socket_path"
             /\ conn.unix_socket_path = url.path
             /\ conn.db =
                  (IF "virtual_host" \in DOMAIN parse_qs(url.query)
                   THEN PyStr(parse_qs(url.query)["virtual_host"][1])
                   ELSE PyInt(0))
        /\ url.scheme # "redis+socket" =>
             /\ conn.via = "host"
             /\ conn.host = url.hostname /\ conn.port = url.port
             /\ DbNumber(conn.db) =
                  (IF url.path = <<>> THEN 0 ELSE NumberWritten(Tail(url.path)))
             /\ conn.password =
                  (IF url.password = PyNone THEN PyNone
                   ELSE PyStr(unquote(url.password.str)))

Position(calls, name) == CHOOSE i \in 1..Len(calls) : calls[i] = name
Times_Called(calls, name) == Cardinality({i \in 1..Len(calls) : calls[i] = name})
Without(calls, name) ==
  LET keep == {i \in 1..Len(calls) : calls[i] # name}
      F[i \in 0..Len(calls)] ==
        IF i = 0 THEN <<>>
        ELSE IF i \in keep THEN Append(F[i - 1], calls[i]) ELSE F[i - 1]
  IN  F[Len(calls)]
FixedOrder ==
  <<"provision_app", "db.init_app", "migrate.init_app", "mail.init_app",
    "setup_authentication", "limiter.init_app", "handlers.init_app",
    "configure_webpack", "extensions.init_extensions">>

(* C10: create_app runs each initializer once, in the order provision_app, *)
(* db, migrate, (init_admin), mail, authentication, limiter, handlers,     *)
(* webpack, extensions; init_admin runs exactly when load_admin is true.   *)
C10_InitOrder ==
  app # NoApp =>
    /\ Without(app.calls, "init_admin") = FixedOrder
    /\ Times_Called(app.calls, "init_admin") = (IF app.load_admin THEN 1 ELSE 0)
    /\ app.load_admin =>
         /\ Position(app.calls, "migrate.init_app") + 1
              = Position(app.calls, "init_admin")
         /\ Position(app.calls, "init_admin") + 1
              = Position(app.calls, "mail.init_app")
    /\ Position(app.calls, "db.init_app") < Position(app.calls, "migrate.init_app")
    /\ Position(app.calls, "db.init_app")
         < Position(app.calls, "setup_authentication")
    /\ Position(app.calls, "setup_authentication")
         < Position(app.calls, "handlers.init_app")

C10_Witness == app # NoApp /\ app.load_admin /\ Len(app.calls) = 10
=============================================================================
